---- MODULE Spec2Model ----
(***************************************************************************)
(* Term-Algebra.js: terms (Variable, Constant, FuncTerm) and substitutions *)
(* over them (add, remove, contains, apply, cloneSubstitution, compose).   *)
(*                                                                         *)
(* A term is a record tagged with the class it is an instance of.  A       *)
(* Substitution object is a cell of the heap holding its `subs` array, a   *)
(* sequence of <<variable, term>> pairs; the operations take and return    *)
(* the heap, so that a call that writes to an object other than the one it *)
(* created shows in the heap.  Terms have no method that writes to them,   *)
(* so they are values.                                                     *)
(***************************************************************************)
EXTENDS Integers, Sequences, FiniteSets, TLC

(***************************************************************************)
(* Bounds of the model.                                                    *)
(***************************************************************************)
\* Nesting depth of the calls of f in the terms handed to apply.
MaxDepth == 1

\* Names of the variables the caller builds terms and bindings from.
VarNames == {"x", "y"}

(***************************************************************************)
(* Term representation.                                                    *)
(***************************************************************************)
Variable(name) == [kind |-> "Variable", name |-> name]

Constant(name) == [kind |-> "Constant", name |-> name]

Func(name, arity) == [symbol_name |-> name, arity |-> arity]

FuncTerm(func, args) == [kind |-> "FuncTerm", func |-> func, args |-> args]

\* The value JavaScript yields for an index past the end of an array.
undefined == [kind |-> "undefined"]

\* Func.prototype._call: f(...args); throws unless args.length is the arity.
Func_call(func, args) ==
    IF Len(args) # func.arity
    THEN [threw |-> TRUE, ret |-> undefined]
    ELSE [threw |-> FALSE, ret |-> FuncTerm(Func(func.symbol_name, func.arity), args)]

Func_isEqual(this, f) ==
    f.symbol_name = this.symbol_name /\ f.arity = this.arity

isTerm(t) == t.kind \in {"Variable", "Constant", "FuncTerm"}

\* a.map((v, i) => [v, b[i]]): as long as a, b[i] undefined past the end of b.
zip(a, b) ==
    [i \in 1..Len(a) |-> <<a[i], IF i <= Len(b) THEN b[i] ELSE undefined>>]

Variable_isEqual(this, v) == v.kind = "Variable" /\ v.name = this.name

Constant_isEqual(this, c) == c.kind = "Constant" /\ c.name = this.name

RECURSIVE isEqual(_, _)
FuncTerm_isEqual(this, t) ==
    /\ t.kind = "FuncTerm"
    /\ \A i \in 1..Len(zip(this.args, t.args)) :
          isEqual(zip(this.args, t.args)[i][1], zip(this.args, t.args)[i][2])

\* this.isEqual(t), dispatched on the class of `this`.
isEqual(this, t) ==
    CASE this.kind = "Variable" -> Variable_isEqual(this, t)
      [] this.kind = "Constant" -> Constant_isEqual(this, t)
      [] this.kind = "FuncTerm" -> FuncTerm_isEqual(this, t)

RECURSIVE cloneTerm(_)
cloneTerm(t) ==
    CASE t.kind = "Variable" -> Variable(t.name)
      [] t.kind = "Constant" -> Constant(t.name)
      [] t.kind = "FuncTerm" ->
            FuncTerm(Func(t.func.symbol_name, t.func.arity),
                     [i \in 1..Len(t.args) |-> cloneTerm(t.args[i])])

(***************************************************************************)
(* Substitutions.  h is the heap: h[id] is the subs array of object id.    *)
(***************************************************************************)
\* new Substitution(): a fresh object with an empty subs array.
Substitution(h) == [heap |-> Append(h, <<>>), ret |-> Len(h) + 1]

\* add as it would be with the push ahead of the duplicate check.
add_pushFirst(h, this, variable, term) ==
    IF variable.kind # "Variable" \/ ~isTerm(term)
    THEN [heap |-> h, threw |-> TRUE]
    ELSE [heap |-> [h EXCEPT ![this] = Append(@, <<variable, term>>)],
          threw |-> \E i \in 1..Len(h[this]) : isEqual(h[this][i][1], variable)]

add(h, this, variable, term) ==
    IF variable.kind # "Variable" \/ ~isTerm(term)
    THEN [heap |-> h, threw |-> TRUE]
    ELSE IF \E i \in 1..Len(h[this]) : isEqual(h[this][i][1], variable)
    THEN [heap |-> h, threw |-> TRUE]
    ELSE [heap |-> [h EXCEPT ![this] = Append(@, <<variable, term>>)],
          threw |-> FALSE]

\* The index the loop of remove ends with: the last matching one, 0 for -1.
indexToRemove(subs, variable) ==
    LET hits == {i \in 1..Len(subs) : isEqual(subs[i][1], variable)}
    IN  IF hits = {} THEN 0 ELSE CHOOSE i \in hits : \A j \in hits : j <= i

\* subs.splice(i, 1)
splice(subs, i) == SubSeq(subs, 1, i - 1) \o SubSeq(subs, i + 1, Len(subs))

remove(h, this, variable) ==
    IF indexToRemove(h[this], variable) # 0
    THEN [h EXCEPT ![this] = splice(@, indexToRemove(h[this], variable))]
    ELSE h

contains(h, this, variable) ==
    \E i \in 1..Len(h[this]) : isEqual(h[this][i][1], variable)

\* The term of the first binding of subs whose variable isEqual t.
firstMatch(subs, t) ==
    LET hits == {i \in 1..Len(subs) : isEqual(subs[i][1], t)}
    IN  subs[CHOOSE i \in hits : \A j \in hits : i <= j][2]

\* apply as it would be if the term put in place of a variable were looked
\* up once more.
RECURSIVE apply_again(_, _)
apply_again(subs, t) ==
    IF Len(subs) = 0 THEN cloneTerm(t)
    ELSE IF t.kind = "FuncTerm"
    THEN FuncTerm(Func(t.func.symbol_name, t.func.arity),
                  [i \in 1..Len(t.args) |-> apply_again(subs, t.args[i])])
    ELSE IF t.kind = "Variable" /\ \E i \in 1..Len(subs) : isEqual(subs[i][1], t)
    THEN IF firstMatch(subs, t).kind = "Variable"
            /\ \E i \in 1..Len(subs) : isEqual(subs[i][1], firstMatch(subs, t))
         THEN cloneTerm(firstMatch(subs, firstMatch(subs, t)))
         ELSE cloneTerm(firstMatch(subs, t))
    ELSE cloneTerm(t)

RECURSIVE apply(_, _)
apply(subs, t) ==
    IF Len(subs) = 0 THEN cloneTerm(t)
    ELSE IF t.kind = "FuncTerm"
    THEN FuncTerm(Func(t.func.symbol_name, t.func.arity),
                  [i \in 1..Len(t.args) |-> apply(subs, t.args[i])])
    ELSE IF t.kind = "Variable" /\ \E i \in 1..Len(subs) : isEqual(subs[i][1], t)
    THEN cloneTerm(firstMatch(subs, t))
    ELSE cloneTerm(t)

\* for (const [v, t] of sub.subs) newSubstitution.add(cloneTerm(v), cloneTerm(t)),
\* from index i on; the array is read anew at every step, as the iterator does.
RECURSIVE cloneLoop(_, _, _, _)
cloneLoop(h, sub, new, i) ==
    IF i > Len(h[sub]) THEN [heap |-> h, ret |-> new, threw |-> FALSE]
    ELSE LET r == add(h, new, cloneTerm(h[sub][i][1]), cloneTerm(h[sub][i][2]))
         IN  IF r.threw THEN [heap |-> r.heap, ret |-> new, threw |-> TRUE]
             ELSE cloneLoop(r.heap, sub, new, i + 1)

\* cloneSubstitution as it would be if it handed back its argument.
cloneSubstitution_alias(h, sub) == [heap |-> h, ret |-> sub, threw |-> FALSE]

cloneSubstitution(h, sub) ==
    cloneLoop(Substitution(h).heap, sub, Substitution(h).ret, 1)

\* The loop of lines 250-255 as it would be with this.apply(t) for
\* sigma.apply(t).
RECURSIVE rewriteLoop_receiver(_, _, _, _, _)
rewriteLoop_receiver(h, this, sigma, newSubstitution, i) ==
    IF i > Len(h[this]) THEN [heap |-> h, threw |-> FALSE]
    ELSE LET r == add(h, newSubstitution, cloneTerm(h[this][i][1]),
                      apply(h[this], h[this][i][2]))
         IN  IF r.threw THEN r
             ELSE rewriteLoop_receiver(r.heap, this, sigma, newSubstitution, i + 1)

\* The loop of lines 250-255 as it would be with cloneTerm(t) for
\* sigma.apply(t).
RECURSIVE rewriteLoop_noApply(_, _, _, _, _)
rewriteLoop_noApply(h, this, sigma, newSubstitution, i) ==
    IF i > Len(h[this]) THEN [heap |-> h, threw |-> FALSE]
    ELSE LET r == add(h, newSubstitution, cloneTerm(h[this][i][1]),
                      cloneTerm(h[this][i][2]))
         IN  IF r.threw THEN r
             ELSE rewriteLoop_noApply(r.heap, this, sigma, newSubstitution, i + 1)

\* compose, lines 250-255: for (const [v, t] of this.subs)
\*     newSubstitution.add(cloneTerm(v), sigma.apply(t))
RECURSIVE rewriteLoop(_, _, _, _, _)
rewriteLoop(h, this, sigma, newSubstitution, i) ==
    IF i > Len(h[this]) THEN [heap |-> h, threw |-> FALSE]
    ELSE LET r == add(h, newSubstitution, cloneTerm(h[this][i][1]),
                      apply(h[sigma], h[this][i][2]))
         IN  IF r.threw THEN r
             ELSE rewriteLoop(r.heap, this, sigma, newSubstitution, i + 1)

\* The loop of lines 259-263 as it would be if it removed nothing.
domainLoop_keep(h, newSubstitution, newSigma, i) == h

\* compose, lines 259-263: for (const [v, t] of newSubstitution.subs)
\*     if (newSigma.contains(v)) newSigma.remove(v)
RECURSIVE domainLoop(_, _, _, _)
domainLoop(h, newSubstitution, newSigma, i) ==
    IF i > Len(h[newSubstitution]) THEN h
    ELSE IF contains(h, newSigma, h[newSubstitution][i][1])
    THEN domainLoop(remove(h, newSigma, h[newSubstitution][i][1]),
                    newSubstitution, newSigma, i + 1)
    ELSE domainLoop(h, newSubstitution, newSigma, i + 1)

\* compose, lines 266-270: for (const [v, t] of newSubstitution.subs)
\*     if (v.isEqual(t)) newSubstitution.remove(v)
\* The iterator goes on to index i + 1 of the array as remove left it.
RECURSIVE trivialLoop(_, _, _)
trivialLoop(h, newSubstitution, i) ==
    IF i > Len(h[newSubstitution]) THEN h
    ELSE IF isEqual(h[newSubstitution][i][1], h[newSubstitution][i][2])
    THEN trivialLoop(remove(h, newSubstitution, h[newSubstitution][i][1]),
                     newSubstitution, i + 1)
    ELSE trivialLoop(h, newSubstitution, i + 1)

\* compose, lines 273-275: for (const [v, t] of newSigma.subs)
\*     newSubstitution.add(v, t)
RECURSIVE unionLoop(_, _, _, _)
unionLoop(h, newSubstitution, newSigma, i) ==
    IF i > Len(h[newSigma]) THEN [heap |-> h, threw |-> FALSE]
    ELSE LET r == add(h, newSubstitution, h[newSigma][i][1], h[newSigma][i][2])
         IN  IF r.threw THEN r
             ELSE unionLoop(r.heap, newSubstitution, newSigma, i + 1)

\* this.compose(sigma): the heap after the call, the object returned and
\* whether the call threw.
compose(h, this, sigma) ==
    IF Len(h[this]) = 0 THEN cloneSubstitution(h, sigma)
    ELSE
    LET newSubstitution == Substitution(h).ret
        r1 == rewriteLoop(Substitution(h).heap, this, sigma, newSubstitution, 1)
    IN  IF r1.threw THEN [heap |-> r1.heap, ret |-> 0, threw |-> TRUE]
        ELSE
        LET c == cloneSubstitution(r1.heap, sigma)
            newSigma == c.ret
        IN  IF c.threw THEN [heap |-> c.heap, ret |-> 0, threw |-> TRUE]
            ELSE
            LET h2 == domainLoop(c.heap, newSubstitution, newSigma, 1)
                h3 == trivialLoop(h2, newSubstitution, 1)
                r4 == unionLoop(h3, newSubstitution, newSigma, 1)
            IN  [heap |-> r4.heap,
                 ret |-> IF r4.threw THEN 0 ELSE newSubstitution,
                 threw |-> r4.threw]

(***************************************************************************)
(* The caller: the terms it builds, the Substitution objects it holds and  *)
(* the calls it makes on them.                                             *)
(***************************************************************************)
x == Variable("x")

y == Variable("y")

a == Constant("a")

f == Func("f", 1)

g == Func("g", 2)

k == Func("k", 0)

Vars == {Variable(n) : n \in VarNames}

\* The terms the caller binds variables to.
BindTerms == Vars \cup {a, Func_call(g, <<y, a>>).ret}

\* g(x,y) under d nested calls of f.
RECURSIVE Nest(_)
Nest(d) ==
    IF d = 0 THEN Func_call(g, <<x, y>>).ret
    ELSE Func_call(f, <<Nest(d - 1)>>).ret

\* The terms the caller hands to apply.
InputTerms ==
    Vars \cup {a, Func_call(k, <<>>).ret} \cup {Nest(d) : d \in 0..MaxDepth}

\* The terms the caller compares with isEqual: applications whose symbols
\* differ in name or in arity, 0-ary ones, nested ones, and the atoms.
EqTerms ==
    InputTerms
        \cup {Func_call(Func("a", 0), <<>>).ret,
              Func_call(f, <<x>>).ret, Func_call(f, <<y>>).ret,
              Func_call(Func("h", 1), <<x>>).ret,
              Func_call(Func("f", 2), <<x, y>>).ret,
              Func_call(g, <<y, x>>).ret,
              Func_call(f, <<Func_call(f, <<x>>).ret>>).ret,
              Func_call(f, <<Func_call(Func("h", 1), <<x>>).ret>>).ret}

\* The Substitution objects the caller holds.
ObjIds == {1, 2}

(***************************************************************************)
(* heap: the subs array of every Substitution object the caller holds.     *)
(* call: the last call the caller made: its arguments, the heap before it  *)
(* (`before`) and what it returned or whether it threw.                    *)
(***************************************************************************)
VARIABLES heap, call

vars == <<heap, call>>

\* The objects of heap h the caller still holds once a call has returned.
held(h) == [i \in DOMAIN heap |-> h[i]]

\* new Substitution() for every object the caller holds; no call made yet.
Init ==
    /\ heap = [i \in ObjIds |-> <<>>]
    /\ call = [op |-> "none"]

\* sigma.add(variable, term), sigma the object `this`.
Add(this, variable, term) ==
    \E r \in {add(heap, this, variable, term)} :
        /\ heap' = held(r.heap)
        /\ call' = [op |-> "add", this |-> this, variable |-> variable,
                    term |-> term, before |-> heap, threw |-> r.threw]

\* sigma.remove(variable)
Remove(this, variable) ==
    /\ heap' = held(remove(heap, this, variable))
    /\ call' = [op |-> "remove", this |-> this, variable |-> variable,
                before |-> heap]

\* sigma.apply(t); ret is the term returned.
Apply(this, t) ==
    /\ heap' = heap
    /\ call' = [op |-> "apply", this |-> this, t |-> t, before |-> heap,
                ret |-> apply(heap[this], t)]

\* this.compose(sigma); ret is the subs array of the object returned.
Compose(this, sigma) ==
    \E r \in {compose(heap, this, sigma)} :
        /\ heap' = held(r.heap)
        /\ call' = [op |-> "compose", this |-> this, sigma |-> sigma,
                    before |-> heap, threw |-> r.threw, retId |-> r.ret,
                    ret |-> IF r.threw THEN <<>> ELSE r.heap[r.ret]]

\* t1.isEqual(t2)
IsEqual(t1, t2) ==
    /\ heap' = heap
    /\ call' = [op |-> "isEqual", this |-> t1, t |-> t2,
                ret |-> isEqual(t1, t2)]

Next ==
    \/ \E this \in ObjIds, variable \in Vars, term \in BindTerms :
          Add(this, variable, term)
    \/ \E this \in ObjIds, variable \in Vars : Remove(this, variable)
    \/ \E this \in ObjIds, t \in InputTerms : Apply(this, t)
    \/ \E this \in ObjIds, sigma \in ObjIds : Compose(this, sigma)

\* The caller builds substitutions, applies them and composes them.
Spec == Init /\ [][Next]_vars

NextTerm == \E t1 \in EqTerms, t2 \in EqTerms : IsEqual(t1, t2)

\* The caller compares terms.
SpecTerm == Init /\ [][NextTerm]_vars

\* The bindings the caller can add, and the subs arrays add and remove can
\* lead to: every sequence of bindings of different variables.
Bindings == {<<v, t>> : v \in Vars, t \in BindTerms}

Substs ==
    {subs \in UNION {[1..n -> Bindings] : n \in 0..Cardinality(Vars)} :
        \A i \in 1..Len(subs), j \in 1..Len(subs) :
            subs[i][1] = subs[j][1] => i = j}

\* The three Substitution objects of a chain of compositions.
LawIds == {1, 2, 3}

InitLaw ==
    /\ heap \in [LawIds -> Substs]
    /\ call = [op |-> "none"]

\* sigma1.compose(sigma2).compose(sigma3).apply(t), the one expression the
\* caller evaluates on the substitutions it was given.
ComposeApply(t) ==
    /\ call.op = "none"
    /\ \E r1 \in {compose(heap, 1, 2)} :
        IF r1.threw
        THEN /\ heap' = held(r1.heap)
             /\ call' = [op |-> "composeApply", t |-> t, before |-> heap,
                         threw |-> TRUE, ret |-> undefined]
        ELSE \E r2 \in {compose(r1.heap, r1.ret, 3)} :
                /\ heap' = held(r2.heap)
                /\ call' = [op |-> "composeApply", t |-> t, before |-> heap,
                            threw |-> r2.threw,
                            ret |-> IF r2.threw THEN undefined
                                    ELSE apply(r2.heap[r2.ret], t)]

NextLaw == \E t \in InputTerms : ComposeApply(t)

\* The caller composes three substitutions and applies the result.
SpecLaw == InitLaw /\ [][NextLaw]_vars

(***************************************************************************)
(* Properties.  For a call of compose, Sigma1 and Sigma2 are the operands  *)
(* as they were before the call and call.ret is the substitution returned. *)
(***************************************************************************)
Composed == call.op = "compose" /\ ~call.threw

Sigma1 == call.before[call.this]

Sigma2 == call.before[call.sigma]

\* The variables a subs array binds.
Domain(subs) == {subs[i][1] : i \in 1..Len(subs)}

\* No variable is bound twice in subs.
NoDuplicateKeys(subs) ==
    \A i \in 1..Len(subs), j \in 1..Len(subs) :
        subs[i][1].name = subs[j][1].name => i = j

\* The bindings of subs whose variable is not in the set D, in order.
RECURSIVE Outside(_, _)
Outside(subs, D) ==
    IF subs = <<>> THEN <<>>
    ELSE IF Head(subs)[1] \in D THEN Outside(Tail(subs), D)
    ELSE <<Head(subs)>> \o Outside(Tail(subs), D)

\* The bindings of subs that do not bind a variable to itself, in order.
RECURSIVE NonTrivial(_)
NonTrivial(subs) ==
    IF subs = <<>> THEN <<>>
    ELSE IF Head(subs)[1] = Head(subs)[2] THEN NonTrivial(Tail(subs))
    ELSE <<Head(subs)>> \o NonTrivial(Tail(subs))

\* The variables v of sigma1 whose term sigma2 rewrites to v itself.
TrivialAfter(sigma1, sigma2) ==
    {sigma1[i][1] : i \in {j \in 1..Len(sigma1) :
                              apply(sigma2, sigma1[j][2]) = sigma1[j][1]}}

\* C1: the substitution compose returns holds no binding (v, t) in which t
\* is the variable v itself (v.isEqual(t)).
C1_NoTrivialBinding ==
    Composed =>
        \A i \in 1..Len(call.ret) : ~isEqual(call.ret[i][1], call.ret[i][2])

\* C3: when sigma2 rewrites no term of sigma1 to the variable it is bound
\* to, sigma1.compose(sigma2) is the bindings (v, sigma2.apply(t)) of sigma1
\* in sigma1's order, followed by the bindings of sigma2 whose variable
\* sigma1 does not bind, in sigma2's order.
C3_ComposeShape ==
    call.op = "compose" /\ TrivialAfter(Sigma1, Sigma2) = {} =>
        /\ ~call.threw
        /\ call.ret =
              [i \in 1..Len(Sigma1) |->
                  <<Sigma1[i][1], apply(Sigma2, Sigma1[i][2])>>]
                 \o Outside(Sigma2, Domain(Sigma1))

\* A composition in which sigma2 rewrites a term of sigma1, has a binding
\* that is discarded and a binding that is appended.
C3_Witness ==
    /\ Composed
    /\ TrivialAfter(Sigma1, Sigma2) = {}
    /\ \E i \in 1..Len(Sigma1) : call.ret[i][2] # Sigma1[i][2]
    /\ Domain(Sigma2) \cap Domain(Sigma1) # {}
    /\ Domain(Sigma2) \ Domain(Sigma1) # {}

\* C4: the variables sigma1.compose(sigma2) binds are those of sigma1 whose
\* term sigma2 does not rewrite to the variable itself, and those of sigma2
\* that sigma1 does not bind; none is bound twice.
C4_ComposeDomain ==
    Composed =>
        /\ Domain(call.ret) =
              (Domain(Sigma1) \ TrivialAfter(Sigma1, Sigma2))
                 \cup (Domain(Sigma2) \ Domain(Sigma1))
        /\ NoDuplicateKeys(call.ret)

\* C7: sigma.compose(emptySubstitution) is the bindings of sigma that are
\* not self-bindings, and nothing else.
C7_RightIdentity ==
    Composed /\ Sigma2 = <<>> => call.ret = NonTrivial(Sigma1)

\* r is t with every occurrence of a variable that subs binds replaced by
\* the term subs binds it to, and everything else kept: the other variables,
\* the constants, and the symbol and the argument positions of every
\* application.
RECURSIVE Replaced(_, _, _)
Replaced(subs, t, r) ==
    CASE t.kind = "Variable" ->
            IF \E i \in 1..Len(subs) : subs[i][1].name = t.name
            THEN \E i \in 1..Len(subs) :
                    subs[i][1].name = t.name /\ r = subs[i][2]
            ELSE r = t
      [] t.kind = "Constant" -> r = t
      [] t.kind = "FuncTerm" ->
            /\ r.kind = "FuncTerm"
            /\ r.func.symbol_name = t.func.symbol_name
            /\ r.func.arity = t.func.arity
            /\ Len(r.args) = Len(t.args)
            /\ \A i \in 1..Len(t.args) : Replaced(subs, t.args[i], r.args[i])

\* C6: sigma.apply(t) is t with each occurrence of a variable bound in sigma
\* replaced by exactly the term sigma binds it to, the rest of t kept; the
\* inserted term is not rewritten again, and an empty sigma gives t.
C6_ApplySimultaneous ==
    call.op = "apply" =>
        /\ Replaced(call.before[call.this], call.t, call.ret)
        /\ call.before[call.this] = <<>> => call.ret = call.t

\* apply on an application with an argument that is a variable sigma binds
\* to another variable, which sigma binds too.
C6_Witness ==
    /\ call.op = "apply"
    /\ call.t.kind = "FuncTerm"
    /\ \E i \in 1..Len(call.t.args) :
          /\ call.t.args[i] \in Vars
          /\ call.ret.args[i] \in Domain(call.before[call.this])
          /\ call.ret.args[i] # call.t.args[i]

\* C8: add(v, t) with a variable whose name the substitution already binds
\* fails, and the bindings of the substitution are the same after the
\* failed call as before it.
C8_RejectedDuplicateAdd ==
    /\ call.op = "add"
          /\ (\E i \in 1..Len(call.before[call.this]) :
                 call.before[call.this][i][1].name = call.variable.name)
          => call.threw
    /\ call.op = "add" /\ call.threw => heap = call.before

\* A rejected add on a substitution of two bindings.
C8_Witness ==
    /\ call.op = "add"
    /\ call.threw
    /\ Len(call.before[call.this]) = 2
    /\ call.before[call.this][2][1] = call.variable
    /\ call.before[call.this][2][2] # call.term

\* C9: apply and compose leave the substitutions they are called with as
\* they were before the call, self-composition included.
C9_OperandsUnchanged ==
    call.op \in {"apply", "compose"} => heap = call.before

\* A self-composition of a substitution of two bindings, both of which
\* compose removes from each of the substitutions it builds.
C9_Witness ==
    /\ Composed
    /\ call.this = call.sigma
    /\ Len(Sigma1) = 2
    /\ TrivialAfter(Sigma1, Sigma2) = Domain(Sigma1)

\* C10: compose returns a substitution; none of the add calls it makes
\* throws.
C10_ComposeNeverThrows == call.op = "compose" => ~call.threw

\* A composition that removed a trivial binding, discarded a binding of
\* sigma2 and appended another.
C10_Witness ==
    /\ Composed
    /\ TrivialAfter(Sigma1, Sigma2) # {}
    /\ Domain(Sigma1) \cap Domain(Sigma2) # {}
    /\ Domain(Sigma2) \ Domain(Sigma1) # {}

\* Every subs array the caller can build is a sequence of bindings of
\* different variables.
HeapInSubsts == \A i \in DOMAIN heap : heap[i] \in Substs

\* C2: applying compose(compose(sigma1, sigma2), sigma3) to t gives the term
\* that applying sigma1, then sigma2, then sigma3 to t gives.
C2_CompositionLaw ==
    call.op = "composeApply" =>
        /\ ~call.threw
        /\ call.ret =
              apply(call.before[3],
                    apply(call.before[2], apply(call.before[1], call.t)))

\* A chain in which each of the three substitutions rewrites the term in
\* turn.
C2_Witness ==
    /\ call.op = "composeApply"
    /\ ~call.threw
    /\ apply(call.before[1], call.t) # call.t
    /\ apply(call.before[2], apply(call.before[1], call.t))
          # apply(call.before[1], call.t)
    /\ call.ret # apply(call.before[2], apply(call.before[1], call.t))

\* C5: for applications t1 and t2, t1.isEqual(t2) is true exactly when
\* their symbols have the same name and the same arity, they have as many
\* arguments, and the arguments at each position are equal.
C5_ApplicationEquality ==
    call.op = "isEqual" /\ call.this.kind = "FuncTerm"
          /\ call.t.kind = "FuncTerm" =>
        (call.ret <=>
            /\ Func_isEqual(call.this.func, call.t.func)
            /\ Len(call.this.args) = Len(call.t.args)
            /\ \A i \in 1..Len(call.this.args) :
                  isEqual(call.this.args[i], call.t.args[i]))

\* C11: isEqual is symmetric: for all terms t1 and t2, t1.isEqual(t2) and
\* t2.isEqual(t1) return the same boolean.
C11_IsEqualSymmetric ==
    call.op = "isEqual" => call.ret = isEqual(call.t, call.this)

====
